---- MODULE Spec2Model ----
(***************************************************************************)
(* Model of the connector core of web-scrobbler                           *)
(* (src/src/core/content/connector.js): the raw and filtered state        *)
(* snapshots, the change detection of stateChangedWorker, filterState,    *)
(* the two gates and the play/pause bypass of onStateChanged, the         *)
(* throttled worker and resetState.                                        *)
(*                                                                         *)
(* JavaScript values are tagged records, so that null, NaN, strings,      *)
(* numbers and booleans stay distinct and `===` and truthiness are        *)
(* computed as JavaScript computes them.  A string is the sequence of its *)
(* characters.                                                             *)
(***************************************************************************)
EXTENDS Integers, Sequences, FiniteSets, TLC

\* ------------------------------------------------------------------ values

Null == [k |-> "null"]

NaN == [k |-> "nan"]

Str(s) == [k |-> "str", v |-> s]

Num(n) == [k |-> "num", v |-> n]

Bool(b) == [k |-> "bool", v |-> b]

\* JavaScript truthiness: null/undefined, NaN, "", 0 and false are falsy.
Truthy(x) ==
    CASE x.k = "null" -> FALSE
      [] x.k = "nan"  -> FALSE
      [] x.k = "str"  -> x.v # <<>>
      [] x.k = "num"  -> x.v # 0
      [] x.k = "bool" -> x.v

\* x === false
IsFalse(x) == x.k = "bool" /\ x.v = FALSE

\* x === y on primitive values (NaN is not equal to itself).
StrictEq(x, y) ==
    /\ x.k = y.k
    /\ x.k # "nan"
    /\ (x.k = "null" \/ x.v = y.v)

Abs(n) == IF n < 0 THEN -n ELSE n

Max(a, b) == IF a >= b THEN a ELSE b

\* ------------------------------------------------------------------ state shape

\* Object.keys(defaultState), in insertion order (the order of `for (key in currentState)`).
FieldOrder == <<"track", "artist", "album", "uniqueID", "duration", "currentTime", "isPlaying", "trackArt">>

Fields == {FieldOrder[i] : i \in 1..Len(FieldOrder)}

defaultState ==
    [track |-> Null, artist |-> Null, album |-> Null, uniqueID |-> Null,
     duration |-> Null, currentTime |-> Null, isPlaying |-> Bool(TRUE), trackArt |-> Null]

\* The object literal {} that resetState hands to the reactor: no property at all.
EmptyObject == [f \in {} |-> Null]

\* Util.makeEmptyArtistTrack()
makeEmptyArtistTrack == [artist |-> Null, track |-> Null]

\* ------------------------------------------------------------------ getCurrentState

\* `d` is what the connector's getters return at one instant (the document).
\* d.getArtistTrack is Null or a record {artist, track}; d.getTimeInfo is a
\* record {duration, currentTime}.
ArtistTrackOf(d) ==
    IF d.getArtistTrack = Null THEN makeEmptyArtistTrack ELSE d.getArtistTrack

ResolveArtist_CombinedWins(d) ==
    IF Truthy(ArtistTrackOf(d).artist) THEN ArtistTrackOf(d).artist ELSE d.getArtist

ResolveArtist(d) ==
    IF ~Truthy(d.getArtist) /\ Truthy(ArtistTrackOf(d).artist)
    THEN ArtistTrackOf(d).artist ELSE d.getArtist

ResolveTrack(d) ==
    IF ~Truthy(d.getTrack) /\ Truthy(ArtistTrackOf(d).track)
    THEN ArtistTrackOf(d).track ELSE d.getTrack

CurrentTimeFromRemaining_NoAbs(d) ==
    IF ~Truthy(d.getCurrentTime) /\ Truthy(d.getRemainingTime) /\ Truthy(d.getDuration)
    THEN Num(d.getDuration.v - d.getRemainingTime.v)
    ELSE d.getCurrentTime

\* currentTime after the remaining-time fallback (lines 305-310): the duration
\* read is the one of this call (newState.duration), before the timeInfo fallback.
CurrentTimeFromRemaining(d) ==
    IF ~Truthy(d.getCurrentTime) /\ Truthy(d.getRemainingTime) /\ Truthy(d.getDuration)
    THEN Num(d.getDuration.v - Abs(d.getRemainingTime.v))
    ELSE d.getCurrentTime

ResolveDuration(d) ==
    IF ~Truthy(d.getDuration) /\ Truthy(d.getTimeInfo.duration)
    THEN d.getTimeInfo.duration ELSE d.getDuration

ResolveCurrentTime(d) ==
    IF ~Truthy(CurrentTimeFromRemaining(d)) /\ Truthy(d.getTimeInfo.currentTime)
    THEN d.getTimeInfo.currentTime ELSE CurrentTimeFromRemaining(d)

getCurrentState(d) ==
    [track |-> ResolveTrack(d), artist |-> ResolveArtist(d), album |-> d.getAlbum,
     uniqueID |-> d.getUniqueID, duration |-> ResolveDuration(d),
     currentTime |-> ResolveCurrentTime(d), isPlaying |-> d.isPlaying,
     trackArt |-> d.getTrackArt]

\* The part of the document getCurrentState reads (the gates are not part of it).
GetterNames ==
    {"getTrack", "getArtist", "getAlbum", "getUniqueID", "getDuration", "getCurrentTime",
     "isPlaying", "getTrackArt", "getArtistTrack", "getRemainingTime", "getTimeInfo"}

ExtractorOutput(d) == [g \in GetterNames |-> d[g]]

\* ------------------------------------------------------------------ stateChangedWorker, the diff

NewValue_FalseIsDefault(newState, key) ==
    IF Truthy(newState[key]) THEN newState[key] ELSE defaultState[key]

\* Lines 468-473: a falsy value other than false becomes the field's default.
NewValue(newState, key) ==
    IF Truthy(newState[key]) \/ IsFalse(newState[key])
    THEN newState[key] ELSE defaultState[key]

\* Lines 467-480: the keys pushed to changedFields, in key order.
ChangedFields(cur, newState) ==
    SelectSeq(FieldOrder, LAMBDA key : ~StrictEq(NewValue(newState, key), cur[key]))

UpdatedState_NoStore(cur, newState) == cur

\* Lines 476-478: currentState after the loop (a key is assigned only when it differs).
UpdatedState(cur, newState) ==
    [key \in Fields |->
        IF ~StrictEq(NewValue(newState, key), cur[key])
        THEN NewValue(newState, key) ELSE cur[key]]

\* ------------------------------------------------------------------ MetadataFilter

\* A filter maps each of artist, track, album and "all" to the names of its
\* transforms, in application order.
FilterKeys == {"artist", "track", "album", "all"}

IsSpace(c) == c \in {" ", "nbsp"}

RECURSIVE TrimLeft(_)
TrimLeft(s) == IF s # <<>> /\ IsSpace(Head(s)) THEN TrimLeft(Tail(s)) ELSE s

RECURSIVE TrimRight(_)
TrimRight(s) ==
    IF s # <<>> /\ IsSpace(s[Len(s)]) THEN TrimRight(SubSeq(s, 1, Len(s) - 1)) ELSE s

\* MetadataFilter.trim
Trim(s) == TrimRight(TrimLeft(s))

\* MetadataFilter.replaceNbsp: a non-breaking space becomes a space.
ReplaceNbsp(s) == [i \in 1..Len(s) |-> IF s[i] = "nbsp" THEN " " ELSE s[i]]

\* A site-specific transform (such as the suffix removal of youtube-music.js,
\* line 53): a trailing "!" is removed.
DropBang(s) == IF s # <<>> /\ s[Len(s)] = "!" THEN SubSeq(s, 1, Len(s) - 1) ELSE s

ApplyTransform(t, s) ==
    CASE t = "trim" -> Trim(s)
      [] t = "replaceNbsp" -> ReplaceNbsp(s)
      [] t = "dropBang" -> DropBang(s)
      [] OTHER -> s

RECURSIVE ApplyTransforms(_, _)
ApplyTransforms(ts, s) ==
    IF ts = <<>> THEN s ELSE ApplyTransforms(Tail(ts), ApplyTransform(Head(ts), s))

NoTransforms == [f \in FilterKeys |-> <<>>]

\* MetadataFilter.getTrimFilter()
getTrimFilter == [NoTransforms EXCEPT !["all"] = <<"trim">>]

\* MetadataFilter.getNbspFilter()
getNbspFilter == [NoTransforms EXCEPT !["all"] = <<"replaceNbsp">>]

\* receiver.extend(other): for each key the transforms of `other`, then the receiver's.
Extend(receiver, other) == [f \in FilterKeys |-> other[f] \o receiver[f]]

\* filter.filterField(field, text): an empty text is returned as it is; otherwise
\* the field's transforms are applied, then the "all" transforms.
filterField(flt, field, text) ==
    IF ~Truthy(text) THEN text
    ELSE Str(ApplyTransforms(flt[field] \o flt["all"], text.v))

\* Lines 388-389: the filter a connector starts with.
InitialFilter == Extend(getTrimFilter, getNbspFilter)

\* Lines 399-401: the filter applyFilter(custom) installs.
applyFilter(custom) == Extend(custom, getTrimFilter)

\* ------------------------------------------------------------------ filterState

\* a || b
JsOr(a, b) == IF Truthy(a) THEN a ELSE b

\* Util.escapeBadTimeValues: a negative or NaN time is not reported.
escapeBadTimeValues(v) == IF v.k = "num" /\ v.v >= 0 THEN v ELSE Null

\* Line 359: the base connector has no default track art.
isTrackArtDefault(v) == FALSE

FilteredValue_NoTextDefault(flt, field, fieldValue) ==
    CASE field \in {"artist", "track", "album"} -> filterField(flt, field, fieldValue)
      [] field \in {"currentTime", "duration"} ->
            JsOr(escapeBadTimeValues(fieldValue), defaultState[field])
      [] field = "trackArt" ->
            IF isTrackArtDefault(fieldValue) THEN Null ELSE fieldValue
      [] OTHER -> fieldValue

FilteredValue_NoTimeGuard(flt, field, fieldValue) ==
    CASE field \in {"artist", "track", "album"} ->
            JsOr(filterField(flt, field, fieldValue), defaultState[field])
      [] field = "trackArt" ->
            IF isTrackArtDefault(fieldValue) THEN Null ELSE fieldValue
      [] OTHER -> fieldValue

\* Lines 507-525: the value filterState stores for one changed field.
FilteredValue(flt, field, fieldValue) ==
    CASE field \in {"artist", "track", "album"} ->
            JsOr(filterField(flt, field, fieldValue), defaultState[field])
      [] field \in {"currentTime", "duration"} ->
            JsOr(escapeBadTimeValues(fieldValue), defaultState[field])
      [] field = "trackArt" ->
            IF isTrackArtDefault(fieldValue) THEN Null ELSE fieldValue
      [] OTHER -> fieldValue

InSeq(x, s) == \E i \in 1..Len(s) : s[i] = x

filterState_FirstOnly(flt, filtered, raw, changedFields) ==
    [field \in Fields |->
        IF changedFields # <<>> /\ field = changedFields[1]
        THEN FilteredValue(flt, field, raw[field]) ELSE filtered[field]]

filterState_AllFields(flt, filtered, raw, changedFields) ==
    [field \in Fields |-> FilteredValue(flt, field, raw[field])]

\* Lines 505-529: filteredState after filterState(changedFields).
filterState(flt, filtered, raw, changedFields) ==
    [field \in Fields |->
        IF InSeq(field, changedFields)
        THEN FilteredValue(flt, field, raw[field]) ELSE filtered[field]]

\* ------------------------------------------------------------------ bounds and documents

\* Util.throttle(this.stateChangedWorker, 500): the wait, in milliseconds.
ThrottleWait == 500

\* Time advances in steps of TickMs milliseconds.
TickMs == 250

\* The signals of one throttle window are counted up to MaxSignals.
MaxSignals == 2

\* A run of consecutive play/pause edge signals is logged up to MaxEdges.
MaxEdges == 3

NoTimeInfo == [duration |-> Null, currentTime |-> Null]

\* A document with nothing in it: every selector lookup is empty, playback is
\* playing and both gates are open.
EmptyDocument ==
    [getTrack |-> Str(<<>>), getArtist |-> Str(<<>>), getAlbum |-> Str(<<>>),
     getUniqueID |-> Null, getDuration |-> Null, getCurrentTime |-> Null,
     isPlaying |-> Bool(TRUE), getTrackArt |-> Null, getArtistTrack |-> Null,
     getRemainingTime |-> Null, getTimeInfo |-> NoTimeInfo,
     isScrobblingAllowed |-> TRUE, isStateChangeAllowed |-> TRUE]

\* The documents of the scheduling specification.  With both gates open the
\* track and the playing indicator vary; a document that closes a gate is read
\* no further than the gate by onStateChanged.
DomOpen ==
    {[EmptyDocument EXCEPT !.getTrack = t, !.isPlaying = Bool(p)] :
        t \in {Str(<<>>), Str(<<"A">>)}, p \in BOOLEAN}

DomGated ==
    {[EmptyDocument EXCEPT !.getTrack = Str(<<"A">>),
                           !.isScrobblingAllowed = sa, !.isStateChangeAllowed = ca] :
        sa \in BOOLEAN, ca \in BOOLEAN} \ DomOpen

DomSched == DomOpen \cup DomGated

\* The documents of the evaluation specification: both gates are open and the
\* getters that feed the time fallbacks and the time guard vary.
DomEval ==
    {[EmptyDocument EXCEPT !.getArtist = Str(<<" ", "A">>), !.getDuration = du,
                           !.getCurrentTime = ct, !.getRemainingTime = rt,
                           !.getTimeInfo = ti, !.isPlaying = Bool(p)] :
        du \in {Null, Num(3)},
        ct \in {Null, Num(5), NaN},
        rt \in {Null, Num(-5)},
        ti \in {NoTimeInfo, [duration |-> Num(4), currentTime |-> Num(1)]},
        p \in BOOLEAN}

\* ------------------------------------------------------------------ state

VARIABLES
    currentState,     \* the raw snapshot (line 437)
    filteredState,    \* the filtered snapshot (line 443)
    isStateReset,     \* line 451
    reactorCallback,  \* TRUE when the reactor has set its callback (line 458)
    filter,           \* this.filter (line 388)
    timeout,          \* the throttle's pending timer: <<>> or <<milliseconds left>>
    calls,            \* history: the reactor invocations of the last step
    ran,              \* history: whether the last step ran stateChangedWorker
    lastRun,          \* history: <<getter values>> read by the last stateChangedWorker run
    lastChanged,      \* history: changedFields of the last stateChangedWorker run
    event,            \* history: what the last step was and what it was given
    lastNotif,        \* history: kind of the last reactor notification
    episode,          \* history: "fresh", "reset" (reset notified, nothing accepted since) or "live"
    win,              \* history: the signals and worker runs of the current throttle window
    edgeLog,          \* history: the run of consecutive play/pause edge signals just handled
    pipeline          \* the SongPipeline instance driven by the consumer and its process(track) call

vars ==
    <<currentState, filteredState, isStateReset, reactorCallback, filter, timeout,
      calls, ran, lastRun, lastChanged, event, lastNotif, episode, win, edgeLog,
      pipeline>>

\* The record of a step: the operation, the class and the gates of its signal,
\* whether its run repeats the previous one, the episode and the last
\* notification as they were before the step, and the playing indicator an
\* accepted signal read (line 561).
Ev(op, class, gates, repeat) ==
    [op |-> op, class |-> class, gates |-> gates, repeat |-> repeat,
     episodeBefore |-> episode, notifBefore |-> lastNotif, read |-> Null]

\* A SongPipeline before process(track) is called: the stages as registered
\* (each resolves or rejects), the stage being awaited (0 when none), the index
\* of the next stage, the start/resolve/reject events so far, the stages that
\* have mutated the track, and the error handed to the caller (0 when none).
IdlePipeline ==
    [status |-> "Idle", stages |-> <<>>, running |-> 0, next |-> 1,
     log |-> <<>>, track |-> <<>>, error |-> 0]

NoWindow == [signals |-> 0, runs |-> 0, pure |-> TRUE, first |-> <<>>]

Init ==
    /\ currentState = defaultState
    /\ filteredState = defaultState
    /\ isStateReset = FALSE
    /\ reactorCallback = FALSE
    /\ filter = InitialFilter
    /\ timeout = <<>>
    /\ calls = <<>>
    /\ ran = FALSE
    /\ lastRun = <<>>
    /\ lastChanged = <<>>
    /\ lastNotif = "none"
    /\ episode = "fresh"
    /\ event = [op |-> "init", class |-> "none", gates |-> <<>>, repeat |-> FALSE,
                episodeBefore |-> "fresh", notifBefore |-> "none", read |-> Null]
    /\ win = NoWindow
    /\ edgeLog = <<>>
    /\ pipeline = IdlePipeline

\* ------------------------------------------------------------------ the code's steps

ResetCall_Default == [kind |-> "reset", state |-> defaultState, changedFields |-> FieldOrder]

\* Lines 579-581: the arguments resetState passes to the reactor.
ResetCall == [kind |-> "reset", state |-> EmptyObject, changedFields |-> FieldOrder]

\* Lines 486-488: the arguments stateChangedWorker passes to the reactor.
StateCall(filtered, changedFields) ==
    [kind |-> "state", state |-> filtered, changedFields |-> changedFields]

stateChangedWorker_AlwaysNotify(d) ==
    \E newState \in {getCurrentState(d)} :
    \E changedFields \in {ChangedFields(currentState, newState)} :
    \E raw \in {UpdatedState(currentState, newState)} :
    \E filtered \in {filterState(filter, filteredState, raw, changedFields)} :
        /\ currentState' = raw
        /\ filteredState' = filtered
        /\ calls' = IF reactorCallback
                    THEN <<StateCall(filtered, changedFields)>> ELSE <<>>
        /\ ran' = TRUE
        /\ lastRun' = <<ExtractorOutput(d)>>
        /\ lastChanged' = changedFields

\* Lines 463-499, run on the document d.  (The singleton quantifiers name the
\* locals of the function: newState, changedFields and the two snapshots after it.)
stateChangedWorker(d) ==
    \E newState \in {getCurrentState(d)} :
    \E changedFields \in {ChangedFields(currentState, newState)} :
    \E raw \in {UpdatedState(currentState, newState)} :
    \E filtered \in {IF Len(changedFields) > 0
                     THEN filterState(filter, filteredState, raw, changedFields)
                     ELSE filteredState} :
        /\ currentState' = raw
        /\ filteredState' = filtered
        /\ calls' = IF Len(changedFields) > 0 /\ reactorCallback
                    THEN <<StateCall(filtered, changedFields)>> ELSE <<>>
        /\ ran' = TRUE
        /\ lastRun' = <<ExtractorOutput(d)>>
        /\ lastChanged' = changedFields

\* What a step that does not run the worker leaves alone.
NoRun ==
    /\ ran' = FALSE
    /\ UNCHANGED <<currentState, filteredState, lastRun, lastChanged>>

resetState_NoFlag ==
    /\ calls' = IF reactorCallback THEN <<ResetCall>> ELSE <<>>
    /\ isStateReset' = TRUE

\* Lines 574-584.
resetState ==
    IF isStateReset
    THEN /\ calls' = <<>>
         /\ UNCHANGED isStateReset
    ELSE /\ calls' = IF reactorCallback THEN <<ResetCall>> ELSE <<>>
         /\ isStateReset' = TRUE

\* Line 534, Util.throttle: a call arms the timer when none is pending; calls
\* inside the window are coalesced into the one pending trailing run.
stateChangedWorkerThrottled ==
    /\ timeout' = IF timeout = <<>> THEN <<ThrottleWait>> ELSE timeout
    /\ calls' = <<>>
    /\ NoRun

IsEdge_Never(d) == FALSE

\* Lines 562-563: the play/pause edge test.
IsEdge(d) == ~StrictEq(d.isPlaying, currentState.isPlaying)

\* Lines 551-567: the signal passed both gates.
Accepted(d) ==
    /\ isStateReset' = FALSE
    /\ IF IsEdge(d)
       THEN /\ stateChangedWorker(d)
            /\ UNCHANGED timeout
       ELSE stateChangedWorkerThrottled

\* Lines 547-549: the state-change gate returns early.
Rejected ==
    /\ calls' = <<>>
    /\ NoRun
    /\ UNCHANGED <<isStateReset, timeout>>

onStateChanged_DropsPlain(d) ==
    IF ~d.isScrobblingAllowed THEN resetState /\ NoRun /\ UNCHANGED timeout
    ELSE IF ~d.isStateChangeAllowed THEN Rejected
    ELSE /\ isStateReset' = FALSE
         /\ IF IsEdge(d)
            THEN stateChangedWorker(d) /\ UNCHANGED timeout
            ELSE calls' = <<>> /\ NoRun /\ UNCHANGED timeout

onStateChanged_AlwaysThrottled(d) ==
    IF ~d.isScrobblingAllowed THEN resetState /\ NoRun /\ UNCHANGED timeout
    ELSE IF ~d.isStateChangeAllowed THEN Rejected
    ELSE isStateReset' = FALSE /\ stateChangedWorkerThrottled

onStateChanged_NoThrottle(d) ==
    IF ~d.isScrobblingAllowed THEN resetState /\ NoRun /\ UNCHANGED timeout
    ELSE IF ~d.isStateChangeAllowed THEN Rejected
    ELSE isStateReset' = FALSE /\ stateChangedWorker(d) /\ UNCHANGED timeout

onStateChanged_NoScrobblingGate(d) ==
    IF ~d.isStateChangeAllowed THEN Rejected ELSE Accepted(d)

onStateChanged_NoStateChangeGate(d) ==
    IF ~d.isScrobblingAllowed THEN resetState /\ NoRun /\ UNCHANGED timeout
    ELSE Accepted(d)

onStateChanged_FlagBeforeGate(d) ==
    IF ~d.isScrobblingAllowed THEN resetState /\ NoRun /\ UNCHANGED timeout
    ELSE IF ~d.isStateChangeAllowed
    THEN calls' = <<>> /\ NoRun /\ isStateReset' = FALSE /\ UNCHANGED timeout
    ELSE Accepted(d)

\* Lines 541-568.
onStateChanged(d) ==
    IF ~d.isScrobblingAllowed
    THEN /\ resetState
         /\ NoRun
         /\ UNCHANGED timeout
    ELSE IF ~d.isStateChangeAllowed
    THEN Rejected
    ELSE Accepted(d)

\* ------------------------------------------------------------------ history

\* How a signal is classed by the two gates and the edge test, before it is handled.
ClassOf(d) ==
    IF ~d.isScrobblingAllowed THEN "reset"
    ELSE IF ~d.isStateChangeAllowed THEN "ignored"
    ELSE IF IsEdge(d) THEN "edge"
    ELSE "plain"

\* The kind of the last notification the reactor has received.
NotifAfter == IF calls' = <<>> THEN lastNotif ELSE calls'[1].kind

\* "reset" from a reset notification until a signal passes both gates.
EpisodeAfter(accepted) ==
    IF accepted THEN (IF episode = "fresh" THEN "fresh" ELSE "live")
    ELSE IF calls' # <<>> /\ calls'[1].kind = "reset" THEN "reset"
    ELSE episode

\* Whether this run of the worker reads the same getter values as the run before it.
IsRepeat(d) == lastRun = <<ExtractorOutput(d)>>

KeepLast(s, n) == IF Len(s) > n THEN SubSeq(s, Len(s) - n + 1, Len(s)) ELSE s

UpTo(n, cap) == IF n < cap THEN n + 1 ELSE n

\* The window's record after a signal of class c that found the timer as it
\* is in `timeout`.
WindowAfterSignal(d, c) ==
    CASE c = "plain" /\ timeout = <<>> ->
            [signals |-> 1, runs |-> IF ran' THEN 1 ELSE 0, pure |-> TRUE,
             first |-> <<ExtractorOutput(d)>>]
      [] c = "plain" /\ timeout # <<>> ->
            [win EXCEPT !.signals = UpTo(@, MaxSignals),
                        !.runs = IF ran' THEN UpTo(@, MaxSignals) ELSE @]
      [] c = "edge" /\ timeout # <<>> -> [win EXCEPT !.pure = FALSE]
      [] OTHER -> win

EdgeLogAfterSignal(d, c) ==
    IF c = "edge"
    THEN KeepLast(Append(edgeLog,
            [read |-> d.isPlaying.v, cb |-> reactorCallback, ran |-> ran',
             got |-> [i \in 1..Len(calls') |-> calls'[i].state.isPlaying.v]]), MaxEdges)
    ELSE <<>>

\* ------------------------------------------------------------------ actions

\* The reactor registers its callback (this.reactorCallback, line 458).
SetReactorCallback ==
    /\ ~reactorCallback
    /\ reactorCallback' = TRUE
    /\ calls' = <<>>
    /\ NoRun
    /\ event' = Ev("setReactorCallback", "none", <<>>, FALSE)
    /\ UNCHANGED <<isStateReset, filter, timeout, lastNotif, episode, win, edgeLog, pipeline>>

\* A change signal arrives while the document is d.
OnStateChanged(d) ==
    \E c \in {ClassOf(d)} :
        /\ onStateChanged(d)
        /\ event' = [Ev("onStateChanged", c,
                        <<d.isScrobblingAllowed, d.isStateChangeAllowed>>,
                        c = "edge" /\ IsRepeat(d))
                        EXCEPT !.read = IF c \in {"edge", "plain"} THEN d.isPlaying ELSE Null]
        /\ lastNotif' = NotifAfter
        /\ episode' = EpisodeAfter(c \in {"edge", "plain"})
        /\ win' = WindowAfterSignal(d, c)
        /\ edgeLog' = EdgeLogAfterSignal(d, c)
        /\ UNCHANGED <<reactorCallback, filter, pipeline>>

\* The connector calls resetState() itself (a custom state change listener).
ResetState ==
    /\ resetState
    /\ NoRun
    /\ event' = Ev("resetState", "reset", <<>>, FALSE)
    /\ lastNotif' = NotifAfter
    /\ episode' = EpisodeAfter(FALSE)
    /\ edgeLog' = <<>>
    /\ UNCHANGED <<reactorCallback, filter, timeout, win, pipeline>>

\* Time passes while the throttle's timer is pending.
Tick ==
    /\ timeout # <<>>
    /\ timeout[1] > 0
    /\ timeout' = <<Max(0, timeout[1] - TickMs)>>
    /\ calls' = <<>>
    /\ NoRun
    /\ event' = Ev("tick", "none", <<>>, FALSE)
    /\ UNCHANGED <<isStateReset, reactorCallback, filter, lastNotif, episode, win, edgeLog, pipeline>>

\* The throttle's timer fires: the trailing run of stateChangedWorker, on the
\* document as it is then.
TimerFire(d) ==
    /\ timeout = <<0>>
    /\ timeout' = <<>>
    /\ stateChangedWorker(d)
    /\ event' = Ev("timer", "none", <<>>, IsRepeat(d))
    /\ lastNotif' = NotifAfter
    /\ episode' = EpisodeAfter(FALSE)
    /\ win' = [win EXCEPT !.runs = IF win.pure /\ ran' THEN UpTo(@, MaxSignals) ELSE @]
    /\ edgeLog' = <<>>
    /\ UNCHANGED <<isStateReset, reactorCallback, filter, pipeline>>

\* A run of stateChangedWorker on the document d, whoever calls it.
StateChangedWorker(d) ==
    /\ stateChangedWorker(d)
    /\ event' = Ev("stateChangedWorker", "none", <<>>, IsRepeat(d))
    /\ lastNotif' = NotifAfter
    /\ episode' = EpisodeAfter(FALSE)
    /\ UNCHANGED <<isStateReset, reactorCallback, filter, timeout, win, edgeLog, pipeline>>

\* The scheduling specification: signals, resets and the throttle's timer.
Next ==
    \/ SetReactorCallback
    \/ \E d \in DomSched : OnStateChanged(d)
    \/ ResetState
    \/ Tick
    \/ \E d \in DomSched : TimerFire(d)

Spec == Init /\ [][Next]_vars

\* The evaluation specification: runs of the worker over the documents of DomEval.
NextEval ==
    \/ SetReactorCallback
    \/ \E d \in DomEval : StateChangedWorker(d)

SpecEval == Init /\ [][NextEval]_vars

\* ------------------------------------------------------------------ claims

\* The step just taken called resetState (directly or through the scrobbling gate).
ResetAttempted == event.class = "reset"

\* The step just taken delivered a reset notification to the reactor.
ResetDelivered == ResetAttempted /\ calls # <<>>

\* A time value that is there: a number.
Present(v) == v.k = "num"

\* C1: when stateChangedWorker runs on the getter values its previous run
\* read, the second run computes no changed field, leaves the raw and the
\* filtered snapshot as they are and does not call the reactor.
C1_RepeatedEvaluationIsEmpty ==
    [][(ran' /\ event'.repeat) =>
            /\ lastChanged' = <<>>
            /\ currentState' = currentState
            /\ filteredState' = filteredState
            /\ calls' = <<>>]_vars

C1_Witness ==
    /\ ran /\ event.repeat /\ reactorCallback
    /\ lastChanged = <<>>
    /\ currentState.duration = Num(3) /\ currentState.isPlaying = Bool(FALSE)

\* C2: every play/pause edge signal that passes both gates is evaluated at
\* once, and with a callback registered the reactor is called exactly once for
\* it, with the isPlaying value that signal read; so the edges play, pause,
\* play inside one throttle window give three calls carrying play, pause, play.
C2_TogglesNotCoalesced ==
    \A i \in 1..Len(edgeLog) :
        /\ edgeLog[i].ran
        /\ edgeLog[i].cb => edgeLog[i].got = <<edgeLog[i].read>>

C2_Witness ==
    /\ timeout # <<>>
    /\ Len(edgeLog) = 3
    /\ \A i \in 1..3 : edgeLog[i].cb /\ edgeLog[i].ran
    /\ [i \in 1..3 |-> edgeLog[i].read] = <<TRUE, FALSE, TRUE>>
    /\ [i \in 1..3 |-> edgeLog[i].got] = << <<TRUE>>, <<FALSE>>, <<TRUE>> >>

\* The raw snapshot a run of the worker on the getter values g leaves.
RawAfterRunOn(g) == [key \in Fields |-> NewValue(getCurrentState(g), key)]

\* C3: signals that pass both gates and are no play/pause edge do not run the
\* worker themselves; two or more of them in one throttle window cause no run
\* while the window is open and exactly one run when it ends, and that run
\* reads the document as it is when the timer fires.
C3_OneTrailingRun ==
    /\ (event.op = "onStateChanged" /\ event.class = "plain") => ~ran
    /\ (win.pure /\ win.signals >= 2) =>
            /\ timeout # <<>> => win.runs = 0
            /\ timeout = <<>> => win.runs = 1
    /\ event.op = "timer" => (ran /\ currentState = RawAfterRunOn(lastRun[1]))

C3_Witness ==
    /\ event.op = "timer"
    /\ win.pure /\ win.signals >= 2 /\ win.runs = 1
    /\ lastRun # win.first
    /\ currentState # RawAfterRunOn(win.first[1])

\* The reactor has had a reset notification and, after it, a state
\* notification as the last one: a real state change following a reset.
StateChangeAfterReset == lastNotif = "state" /\ episode # "fresh"

\* C4: a resetState made when the last notification was a reset and no signal
\* has passed both gates since does not call the reactor; a resetState made
\* when a state change has been delivered after a reset calls the reactor again.
C4_ResetSuppression ==
    [][ResetAttempted' =>
            /\ (lastNotif = "reset" /\ episode = "reset") => calls' = <<>>
            /\ (StateChangeAfterReset /\ reactorCallback) => calls' = <<ResetCall>>]_vars

\* The part of C4 that holds: suppression lasts exactly until a signal
\* passes both gates (line 551), whether or not a state change was delivered.
ResetSuppressionUntilAccepted ==
    [][ResetAttempted' =>
            /\ (lastNotif = "reset" /\ episode = "reset") => calls' = <<>>
            /\ (episode = "live" /\ reactorCallback) => calls' = <<ResetCall>>]_vars

\* C5: after resetState has delivered its notification, the raw and the
\* filtered snapshot hold the default value in every field.
C5_ResetReinitialisesSnapshots ==
    ResetDelivered => (currentState = defaultState /\ filteredState = defaultState)

\* C6: a signal that finds scrobbling disallowed takes the reset path and
\* nothing else, whatever the state-change gate says: the worker does not run,
\* both snapshots and the timer stay as they are, and the reactor gets at most
\* the reset notification.
C6_ScrobblingGate ==
    [][(event'.op = "onStateChanged" /\ ~event'.gates[1]) =>
            /\ ~ran'
            /\ UNCHANGED <<currentState, filteredState, timeout, lastRun>>
            /\ isStateReset'
            /\ \A i \in 1..Len(calls') : calls'[i] = ResetCall
            /\ Len(calls') <= 1]_vars

C6_Witness ==
    /\ event.op = "onStateChanged" /\ event.gates = <<FALSE, TRUE>>
    /\ calls = <<ResetCall>>
    /\ currentState # defaultState /\ timeout # <<>>

\* C7: a signal that finds scrobbling allowed and state change disallowed
\* changes nothing: the snapshots, the reset flag and the pending timer stay
\* as they are, the worker does not run and the reactor is not called.
C7_StateChangeGate ==
    [][(event'.op = "onStateChanged" /\ event'.gates = <<TRUE, FALSE>>) =>
            /\ UNCHANGED <<currentState, filteredState, isStateReset, timeout>>
            /\ ~ran'
            /\ calls' = <<>>]_vars

C7_Witness ==
    /\ event.op = "onStateChanged" /\ event.gates = <<TRUE, FALSE>>
    /\ isStateReset /\ timeout # <<>> /\ reactorCallback

\* C8 (as claimed): the state a reset hands to the reactor has every field,
\* each with its default value, and the changed-field list is all the field names.
C8_ResetPayloadIsDefaultState ==
    ResetDelivered =>
        /\ Len(calls) = 1
        /\ calls[1].state = defaultState
        /\ calls[1].changedFields = FieldOrder

\* C8 (amended): the state a reset hands to the reactor is the empty object,
\* with no field at all, and the changed-field list is all the field names,
\* each once.
C8_ResetPayloadIsEmptyObject ==
    ResetDelivered =>
        /\ Len(calls) = 1
        /\ DOMAIN calls[1].state = {}
        /\ Len(calls[1].changedFields) = Cardinality(Fields)
        /\ {calls[1].changedFields[i] : i \in 1..Len(calls[1].changedFields)} = Fields

C8_Witness == ResetDelivered /\ currentState # defaultState

\* C9 (as claimed): the reactor never gets two reset notifications without a
\* state notification between them.
C9_NoResetsWithoutDeliveredChange ==
    [][ResetDelivered' => lastNotif # "reset"]_vars

\* C9 (amended): between two reset notifications at least one signal has passed
\* both gates.
C9_NoResetsWithoutAcceptedSignal ==
    [][ResetDelivered' => episode # "reset"]_vars

C9_Witness ==
    /\ ResetDelivered
    /\ event.notifBefore = "reset" /\ event.episodeBefore = "live"

\* currentTime <= duration whenever both are there.
TimeWithinDuration(state) ==
    (Present(state.currentTime) /\ Present(state.duration)) =>
        state.currentTime.v <= state.duration.v

\* A time field as filterState leaves it: absent, or a positive number.
GuardedTime(v) == v = Null \/ (Present(v) /\ v.v > 0)

\* C10 (as claimed): in the filtered snapshot and in every state handed to the
\* reactor, currentTime <= duration whenever both are there.
C10_CurrentTimeWithinDuration ==
    /\ TimeWithinDuration(filteredState)
    /\ \A i \in 1..Len(calls) :
            calls[i].kind = "state" => TimeWithinDuration(calls[i].state)

\* C10 (amended): in the filtered snapshot and in every state handed to the
\* reactor, currentTime and duration are each absent or a positive number (a
\* negative, zero or NaN value is replaced by the default); the two are
\* guarded one by one and currentTime may exceed duration.
C10_TimesGuardedOneByOne ==
    /\ GuardedTime(filteredState.currentTime) /\ GuardedTime(filteredState.duration)
    /\ \A i \in 1..Len(calls) :
            calls[i].kind = "state" =>
                /\ GuardedTime(calls[i].state.currentTime)
                /\ GuardedTime(calls[i].state.duration)

C10_Witness ==
    /\ ran /\ calls # <<>>
    /\ currentState.currentTime = Num(-2) /\ filteredState.currentTime = Null
    /\ filteredState.duration = Num(3)

\* ------------------------------------------------------------------ the time fallbacks

\* Documents for the remaining-time fallback: the duration getter is empty or
\* 200, the remaining time is empty, 30 or -30, and the combined time info is
\* empty or complete.
DomTime ==
    {[EmptyDocument EXCEPT !.getDuration = du, !.getCurrentTime = ct,
                           !.getRemainingTime = rt, !.getTimeInfo = ti] :
        du \in {Null, Num(200)},
        ct \in {Null, Num(10)},
        rt \in {Null, Num(30), Num(-30)},
        ti \in {NoTimeInfo, [duration |-> Num(200), currentTime |-> Null],
                [duration |-> Num(200), currentTime |-> Num(50)]}}

NextTime ==
    \/ SetReactorCallback
    \/ \E d \in DomTime : StateChangedWorker(d)

SpecTime == Init /\ [][NextTime]_vars

\* The last run read an empty current time and a remaining time.
RemainingTimeCase(g) == ~Truthy(g.getCurrentTime) /\ Truthy(g.getRemainingTime)

C12_ReactorInvocations ==
    /\ ran => calls = IF lastChanged # <<>> /\ reactorCallback
                      THEN <<StateCall(filteredState, lastChanged)>> ELSE <<>>
    /\ ResetAttempted => (Len(calls) <= 1 /\ \A i \in 1..Len(calls) : calls[i] = ResetCall)

C12_Witness ==
    /\ ran /\ reactorCallback
    /\ Len(lastChanged) >= 2
    /\ calls = <<StateCall(filteredState, lastChanged)>>
    /\ filteredState # defaultState

\* ------------------------------------------------------------------ the throttle's progress

\* The scheduling specification with the event loop's guarantee: while a timer
\* is pending time passes, and a timer whose wait is over fires.
SpecLive ==
    /\ Spec
    /\ WF_vars(Tick)
    /\ WF_vars(\E d \in DomSched : TimerFire(d))

\* The last step was a signal that passed both gates and took the throttled path.
ThrottledSignal == event.op = "onStateChanged" /\ event.class = "plain"

\* The last step was the trailing run of the throttle.
TrailingRun == event.op = "timer" /\ ran

\* C13: every signal that passes both gates and takes the throttled path is
\* followed by a trailing run of stateChangedWorker, and the signals of one
\* window add no more than one trailing run: after such a signal one timer is
\* pending, and a window with no edge in it never has more than one run.
C13_NoSignalDropped ==
    /\ ThrottledSignal ~> TrailingRun
    /\ [](ThrottledSignal => (timeout # <<>> /\ ~ran))
    /\ [](win.pure => win.runs <= 1)

C13_Witness ==
    /\ TrailingRun
    /\ win.signals >= 2 /\ win.runs = 1 /\ win.pure
    /\ timeout = <<>>

\* ------------------------------------------------------------------ applyFilter

\* The filters connectors hand to applyFilter: one transform for every field
\* (recmusic.js, lines 3-5) or one for the track only (youtube-music.js, line 56).
CustomFilters ==
    {[NoTransforms EXCEPT !["all"] = <<"dropBang">>],
     [NoTransforms EXCEPT !["track"] = <<"dropBang">>]}

\* Documents whose track text has spaces, a non-breaking space and a suffix.
DomFilter ==
    {[EmptyDocument EXCEPT !.getTrack = Str(t), !.getArtist = Str(a)] :
        t \in {<<>>, <<"A", "!", " ">>, <<"nbsp", "A", "!">>, <<" ">>},
        a \in {<<>>, <<" ", "B">>}}

\* A connector calls applyFilter(custom).
ApplyFilter(custom) ==
    /\ filter' = applyFilter(custom)
    /\ calls' = <<>>
    /\ NoRun
    /\ event' = Ev("applyFilter", "none", <<>>, FALSE)
    /\ UNCHANGED <<isStateReset, reactorCallback, timeout, lastNotif, episode, win, edgeLog, pipeline>>

NextFilter ==
    \/ SetReactorCallback
    \/ \E custom \in CustomFilters : ApplyFilter(custom)
    \/ \E d \in DomFilter : StateChangedWorker(d)

SpecFilter == Init /\ [][NextFilter]_vars

BaseTransforms == {"trim", "replaceNbsp"}

\* The transforms flt applies to a field, in application order.
ApplicationOrder(flt, field) == flt[field] \o flt["all"]

\* No base transform is applied before a transform that is not a base one.
CustomBeforeBase(flt) ==
    \A field \in {"artist", "track", "album"} :
        \A i, j \in 1..Len(ApplicationOrder(flt, field)) :
            (i < j /\ ApplicationOrder(flt, field)[i] \in BaseTransforms)
                => ApplicationOrder(flt, field)[j] \in BaseTransforms

\* C14: after applyFilter(custom), with extend ordered as the spec orders it,
\* the instance filter applies, for artist, track and album, every transform
\* of the custom filter before the base trim/whitespace transforms.
C14_CustomBeforeBase == CustomBeforeBase(filter)

\* ------------------------------------------------------------------ SongPipeline

\* A pipeline has up to MaxStages stages.
MaxStages == 3

\* The stage lists a pipeline is constructed with.
StageLists ==
    UNION {[1..n -> {"resolve", "reject"}] : n \in 0..MaxStages}

ConnectorVars ==
    <<currentState, filteredState, isStateReset, reactorCallback, filter, timeout,
      calls, ran, lastRun, lastChanged, event, lastNotif, episode, win, edgeLog>>

\* new SongPipeline(stages).process(track) is called: Idle -> Running.
Process(stages) ==
    /\ pipeline.status = "Idle"
    /\ pipeline' = [IdlePipeline EXCEPT !.status = "Running", !.stages = stages]
    /\ UNCHANGED ConnectorVars

StartStage_NoAwait ==
    /\ pipeline.status = "Running"
    /\ pipeline.next <= Len(pipeline.stages)
    /\ pipeline' = [pipeline EXCEPT !.running = pipeline.next,
                                    !.next = @ + 1,
                                    !.log = Append(@, <<"start", pipeline.next>>)]
    /\ UNCHANGED ConnectorVars

\* The loop calls the next stage's process(track) and awaits it; no stage is
\* started while another is awaited.
StartStage ==
    /\ pipeline.status = "Running"
    /\ pipeline.running = 0
    /\ pipeline.next <= Len(pipeline.stages)
    /\ pipeline' = [pipeline EXCEPT !.running = pipeline.next,
                                    !.next = @ + 1,
                                    !.log = Append(@, <<"start", pipeline.next>>)]
    /\ UNCHANGED ConnectorVars

\* The awaited stage mutates the track in place (at most once in the model).
StageMutates ==
    /\ pipeline.status = "Running"
    /\ pipeline.running # 0
    /\ ~InSeq(pipeline.running, pipeline.track)
    /\ pipeline' = [pipeline EXCEPT !.track = Append(@, pipeline.running)]
    /\ UNCHANGED ConnectorVars

\* The awaited stage's promise resolves.
StageResolves ==
    /\ pipeline.status = "Running"
    /\ pipeline.running # 0
    /\ pipeline.stages[pipeline.running] = "resolve"
    /\ pipeline' = [pipeline EXCEPT !.running = 0,
                                    !.log = Append(@, <<"resolve", pipeline.running>>)]
    /\ UNCHANGED ConnectorVars

StageRejects_Continues ==
    /\ pipeline.status = "Running"
    /\ pipeline.running # 0
    /\ pipeline.stages[pipeline.running] = "reject"
    /\ pipeline' = [pipeline EXCEPT !.running = 0,
                                    !.log = Append(@, <<"reject", pipeline.running>>)]
    /\ UNCHANGED ConnectorVars

\* The awaited stage's promise rejects: the remaining stages are aborted and
\* the error goes to the caller; the track is left as it is.
StageRejects ==
    /\ pipeline.status = "Running"
    /\ pipeline.running # 0
    /\ pipeline.stages[pipeline.running] = "reject"
    /\ pipeline' = [pipeline EXCEPT !.status = "Failed", !.running = 0,
                                    !.error = pipeline.running,
                                    !.log = Append(@, <<"reject", pipeline.running>>)]
    /\ UNCHANGED ConnectorVars

\* Every stage has resolved: process(track) resolves.
Completes ==
    /\ pipeline.status = "Running"
    /\ pipeline.running = 0
    /\ pipeline.next > Len(pipeline.stages)
    /\ pipeline' = [pipeline EXCEPT !.status = "Completed"]
    /\ UNCHANGED ConnectorVars

\* The machine of a finished process call is not reused: the next call has its own.
NextCall ==
    /\ pipeline.status \in {"Completed", "Failed"}
    /\ pipeline' = IdlePipeline
    /\ UNCHANGED ConnectorVars

NextPipeline ==
    \/ \E stages \in StageLists : Process(stages)
    \/ StartStage
    \/ StageMutates
    \/ StageResolves
    \/ StageRejects
    \/ Completes
    \/ NextCall

SpecPipeline == Init /\ [][NextPipeline]_vars

\* The pipeline with the event loop's guarantee that an awaited promise is
\* settled and the loop goes on.
SpecPipelineLive ==
    /\ SpecPipeline
    /\ WF_vars(StartStage)
    /\ WF_vars(StageResolves)
    /\ WF_vars(StageRejects)
    /\ WF_vars(Completes)

AllResolve == \A i \in 1..Len(pipeline.stages) : pipeline.stages[i] = "resolve"

\* process of stage 1 called, stage 1 resolved, process of stage 2 called, ...
SequentialLog(n) ==
    [k \in 1..(2 * n) |->
        IF k % 2 = 1 THEN <<"start", (k + 1) \div 2>> ELSE <<"resolve", k \div 2>>]

IsPrefix(a, b) == Len(a) <= Len(b) /\ a = SubSeq(b, 1, Len(a))

\* C15: when every stage resolves, process(track) calls each stage's process
\* once, in registration order, each only after the one before has resolved,
\* and then completes.
C15_AllStagesInOrder ==
    /\ [](AllResolve => IsPrefix(pipeline.log, SequentialLog(Len(pipeline.stages))))
    /\ []((AllResolve /\ pipeline.status = "Completed")
            => pipeline.log = SequentialLog(Len(pipeline.stages)))
    /\ (AllResolve /\ pipeline.status = "Running") ~> (pipeline.status = "Completed")

C15_Witness ==
    /\ pipeline.status = "Completed"
    /\ Len(pipeline.stages) >= 2
    /\ pipeline.log = SequentialLog(Len(pipeline.stages))

\* The stages whose process has been called.
Started == {pipeline.log[k][2] : k \in {j \in 1..Len(pipeline.log) : pipeline.log[j][1] = "start"}}

\* C16: when stage k rejects, no stage after k is started, the caller gets the
\* error of stage k, and the track keeps what the stages up to then did to it;
\* with two stages of which the first rejects, the second never runs.
C16_RejectionAborts ==
    /\ [](\A j \in Started : \A i \in 1..(j - 1) : pipeline.stages[i] = "resolve")
    /\ [](pipeline.status = "Failed" =>
            /\ pipeline.error \in 1..Len(pipeline.stages)
            /\ pipeline.stages[pipeline.error] = "reject"
            /\ Started = 1..pipeline.error
            /\ pipeline.log[Len(pipeline.log)] = <<"reject", pipeline.error>>)
    /\ []((Len(pipeline.stages) = 2 /\ pipeline.stages[1] = "reject") => 2 \notin Started)
    /\ [][pipeline'.status # "Idle" => IsPrefix(pipeline.track, pipeline'.track)]_vars

C16_Witness ==
    /\ pipeline.status = "Failed"
    /\ Len(pipeline.stages) = 3 /\ pipeline.error = 2
    /\ pipeline.track = <<1, 2>>
    /\ 3 \notin Started

\* ------------------------------------------------------------------ the play/pause bypass

\* C17: a signal that passes both gates and reads a playing indicator that
\* differs from the stored raw isPlaying runs stateChangedWorker inside
\* onStateChanged and schedules nothing; the run's changed fields contain
\* isPlaying and the stored raw isPlaying is then the value read.  A signal
\* that reads the stored value takes only the throttled path.
C17_ImmediateBypass ==
    [][(event'.op = "onStateChanged" /\ event'.gates = <<TRUE, TRUE>>) =>
            IF event'.read # currentState.isPlaying
            THEN /\ ran'
                 /\ UNCHANGED timeout
                 /\ InSeq("isPlaying", lastChanged')
                 /\ currentState'.isPlaying = event'.read
            ELSE /\ ~ran'
                 /\ timeout' # <<>>
                 /\ UNCHANGED <<currentState, filteredState>>
                 /\ calls' = <<>>]_vars

C17_Witness ==
    /\ event.op = "onStateChanged" /\ event.gates = <<TRUE, TRUE>>
    /\ ran /\ timeout # <<>>
    /\ event.read = Bool(FALSE) /\ currentState.isPlaying = Bool(FALSE)
    /\ InSeq("isPlaying", lastChanged)

\* ------------------------------------------------------------------ resets and the pending timer

\* C18: from a reset notification until a signal passes both gates the reactor
\* is not called with a state payload, even when the throttle's pending timer
\* fires in between.
C18_NoLeakPastReset ==
    episode = "reset" => \A i \in 1..Len(calls) : calls[i].kind = "reset"

\* ------------------------------------------------------------------ the diff

\* Documents for the diff: empty and zero values, NaN and both playing states.
DomDiff ==
    {[EmptyDocument EXCEPT !.getTrack = t, !.getDuration = du,
                           !.getCurrentTime = ct, !.isPlaying = Bool(p)] :
        t \in {Str(<<>>), Str(<<"A">>)},
        du \in {Null, Num(0), Num(3)},
        ct \in {Null, NaN, Num(0), Num(1)},
        p \in BOOLEAN}

NextDiff ==
    \/ SetReactorCallback
    \/ \E d \in DomDiff : StateChangedWorker(d)

SpecDiff == Init /\ [][NextDiff]_vars

\* A resolved value with an absent (null or NaN), empty or zero value replaced
\* by the field's default; false and every other value are kept.
Substituted(v, key) ==
    IF v \in {Null, NaN, Str(<<>>), Num(0)} THEN defaultState[key] ELSE v

\* C19: after a run of stateChangedWorker the changed-field list holds, each
\* once, exactly the fields whose resolved value after default substitution
\* differs from the value stored before the run, and the raw snapshot is the
\* resolved state after default substitution.
C19_ChangeSetExact ==
    [][ran' =>
        /\ \A i, j \in 1..Len(lastChanged') : lastChanged'[i] = lastChanged'[j] => i = j
        /\ {lastChanged'[i] : i \in 1..Len(lastChanged')} =
                {key \in Fields :
                    Substituted(getCurrentState(lastRun'[1])[key], key) # currentState[key]}
        /\ currentState' =
                [key \in Fields |-> Substituted(getCurrentState(lastRun'[1])[key], key)]]_vars

C19_Witness ==
    /\ ran
    /\ lastRun[1].getDuration = Num(0) /\ lastRun[1].getCurrentTime = NaN
    /\ lastRun[1].isPlaying = Bool(FALSE)
    /\ currentState.duration = Null /\ currentState.currentTime = Null
    /\ currentState.isPlaying = Bool(FALSE)
    /\ Len(lastChanged) = 3

\* ------------------------------------------------------------------ filterState's frame

\* C20: a run of stateChangedWorker leaves every field of the filtered
\* snapshot that is not among its changed fields as it was, and filterState
\* does not write the raw snapshot: after the run the raw snapshot holds the
\* values the diff stored, unfiltered.
C20_FilterStateFrame ==
    [][ran' =>
        /\ \A field \in Fields :
                ~InSeq(field, lastChanged') => filteredState'[field] = filteredState[field]
        /\ currentState' = UpdatedState(currentState, getCurrentState(lastRun'[1]))]_vars

C20_Witness ==
    /\ ran
    /\ lastChanged = <<"artist">>
    /\ currentState.artist = Str(<<" ", "B">>) /\ filteredState.artist = Str(<<"B">>)
    /\ currentState.track = Str(<<"A", "!", " ">>) /\ filteredState.track = Str(<<"A", "!">>)
    /\ filter = applyFilter([NoTransforms EXCEPT !["all"] = <<"dropBang">>])

\* ------------------------------------------------------------------ text fields of the filtered snapshot

TextFields == {"artist", "track", "album"}

\* The null default or a non-empty string.
DefaultOrText(v) == v = Null \/ (v.k = "str" /\ v.v # <<>>)

\* C21: artist, track and album of the filtered snapshot, and of every state
\* handed to the reactor by an evaluation, are the null default or a non-empty
\* string; a text that is absent, empty or filtered down to the empty string is
\* stored and reported as null.
C21_NoEmptyText ==
    /\ \A field \in TextFields : DefaultOrText(filteredState[field])
    /\ \A i \in 1..Len(calls) :
            calls[i].kind = "state" =>
                \A field \in TextFields : DefaultOrText(calls[i].state[field])

C21_Witness ==
    /\ ran /\ calls # <<>>
    /\ InSeq("track", lastChanged)
    /\ currentState.track = Str(<<" ">>) /\ filteredState.track = Null
    /\ calls[1].state.track = Null

\* ------------------------------------------------------------------ the artist/track fallback

\* Documents for the artist/track fallback: each direct getter is empty or
\* not, and the combined getter gives null, no split, a full split or an
\* artist only.
DomArtist ==
    {[EmptyDocument EXCEPT !.getArtist = a, !.getTrack = t, !.getArtistTrack = at] :
        a \in {Str(<<>>), Str(<<"B">>)},
        t \in {Str(<<>>), Str(<<"A">>)},
        at \in {Null, makeEmptyArtistTrack,
                [artist |-> Str(<<"X">>), track |-> Str(<<"Y">>)],
                [artist |-> Str(<<"X">>), track |-> Null]}}

NextArtist ==
    \/ SetReactorCallback
    \/ \E d \in DomArtist : StateChangedWorker(d)

SpecArtist == Init /\ [][NextArtist]_vars

NonEmptyText(v) == v.k = "str" /\ v.v # <<>>

\* The direct value when it is not empty, otherwise the part of the combined
\* result when there is one, otherwise absent.
DirectElseCombined(direct, combined, part) ==
    IF NonEmptyText(direct) THEN direct
    ELSE IF combined # Null /\ NonEmptyText(combined[part]) THEN combined[part]
    ELSE Null

\* C22: the artist a run resolves is the direct getArtist() value when that is
\* not empty and otherwise the artist part of getArtistTrack(), absent when
\* that is empty too; the track likewise and independently; a combined result
\* that is null or has no split leaves both to the direct getters.
C22_ArtistTrackFallback ==
    [][ran' =>
        /\ currentState'.artist =
                DirectElseCombined(lastRun'[1].getArtist, lastRun'[1].getArtistTrack, "artist")
        /\ currentState'.track =
                DirectElseCombined(lastRun'[1].getTrack, lastRun'[1].getArtistTrack, "track")]_vars

C22_Witness ==
    /\ ran
    /\ lastRun[1].getArtist = Str(<<"B">>) /\ lastRun[1].getTrack = Str(<<>>)
    /\ lastRun[1].getArtistTrack = [artist |-> Str(<<"X">>), track |-> Str(<<"Y">>)]
    /\ currentState.artist = Str(<<"B">>) /\ currentState.track = Str(<<"Y">>)

\* ------------------------------------------------------------------ applyFilter and the base filter

\* Every transform flt applies to a field is applied by the filter `by` too.
KeepsTransforms(flt, by) ==
    \A field \in TextFields :
        \A i \in 1..Len(ApplicationOrder(flt, field)) :
            InSeq(ApplicationOrder(flt, field)[i], ApplicationOrder(by, field))

\* C23: after any sequence of applyFilter calls the instance filter still
\* applies every base transform of the initial filter (trim and
\* non-breaking-space replacement), and an applyFilter call discards no
\* transform of the filter installed before it.
C23_FiltersAccumulate ==
    /\ [](KeepsTransforms(InitialFilter, filter))
    /\ [][event'.op = "applyFilter" => KeepsTransforms(filter, filter')]_vars

\* ------------------------------------------------------------------ the consumer after a reset

\* The last step ran stateChangedWorker on a document with a track, and a
\* signal has passed both gates since the last reset notification.
AcceptedEvaluationOnTrack ==
    ran /\ episode = "live" /\ NonEmptyText(lastRun[1].getTrack)

\* C24: once a signal has passed both gates after a reset notification and an
\* evaluation has completed on a document with a track, the last notification
\* the reactor holds is not the reset: it has been called with the track.
C24_ConsumerSeesTrackAfterReset ==
    AcceptedEvaluationOnTrack => lastNotif = "state"

\* ------------------------------------------------------------------ snapshot agreement

\* The documents of the agreement specification: a track text the filter
\* changes, and times the time guard passes and rejects.
DomAgree ==
    {[EmptyDocument EXCEPT !.getTrack = t, !.getCurrentTime = ct,
                           !.isPlaying = Bool(p)] :
        t \in {Str(<<>>), Str(<<" ">>), Str(<<" ", "A">>)},
        ct \in {Null, Num(5), Num(-1)},
        p \in BOOLEAN}

\* The agreement specification: runs of the worker and resets, with the filter
\* the connector was constructed with.
NextAgree ==
    \/ SetReactorCallback
    \/ \E d \in DomAgree : StateChangedWorker(d)
    \/ ResetState

SpecAgree == Init /\ [][NextAgree]_vars

\* C25: with the filter unchanged, after any evaluations and resets every field
\* of the filtered snapshot is the field-wise filtering of the raw snapshot's
\* value for that field.
C25_SnapshotAgreement ==
    /\ filter = InitialFilter
    /\ \A field \in Fields :
          filteredState[field] = FilteredValue(filter, field, currentState[field])

\* After an evaluation that stored an untrimmed track and a negative time,
\* followed by a reset.
C25_Witness ==
    /\ event.op = "resetState"
    /\ currentState.track = Str(<<" ", "A">>)
    /\ filteredState.track = Str(<<"A">>)
    /\ currentState.currentTime = Num(-1)
    /\ filteredState.currentTime = Null
    /\ currentState.isPlaying = Bool(FALSE)
    /\ filteredState.isPlaying = Bool(FALSE)

====
